---- MODULE Spec2Model ----
(***************************************************************************)
(* NEXUS MCP Orchestrator: the scan-analyze-match-notify pipeline          *)
(* (BackendService.scanAndAnalyze) and the completion-service pool         *)
(* (AgentPool) of src/server.js.  src/server.js holds two variants of the  *)
(* backend: the minimal one (lines 1-647) and the verbose one (lines       *)
(* 648-1490).  The variable `variant` says which one a behaviour runs.     *)
(*                                                                         *)
(* The specifications: Spec   is the pipeline (runs of scanAndAnalyze,     *)
(* sequential or overlapping) at one instant of the clock; SpecClock is    *)
(* the pipeline over at most one repository while the clock advances;      *)
(* SpecPool is the pool alone, driven by callers of execute and the clock; *)
(* SpecNotify is the notification manager alone, driven by callers of      *)
(* notifyMaintainer and the clock; SpecLive is Spec with every awaited     *)
(* call eventually answered; SpecGateway is the express application of     *)
(* src/api.js or src/startup.js: its request limiter and admin handlers.   *)
(*                                                                         *)
(* Units: times are milliseconds; analysis scores are tenths (7.0 is 70);  *)
(* relevance scores are hundredths (0.7 is 70).                            *)
(***************************************************************************)
EXTENDS Integers, Sequences, FiniteSets, TLC

\* ------------------------------------------------------------------ bounds
MaxAgents == 2
MaxLimit == 1
MaxRuns == 2
MaxRepos == 2
MaxIssues == 1
MaxTicks == 1
MaxClients == 2
MaxCalls == 4
MaxTickets == 2
MaxIdentifiers == 2
MaxAccepted == 3
MaxGatewayTicks == 2
\* the limit the gateway passes to its limiter (100 in the source), scaled down
GatewayLimit == 2

\* ------------------------------------------------------- program constants
WindowMs == 60000
SweepMs == 60000
CooldownMs == 3600000
RelevanceMin == 70
NotifyScoreMin == 70
DefaultScore == 50

Variants == {"minimal", "verbose"}
Runs == 1..MaxRuns
Clients == 1..MaxClients
TickSteps == {SweepMs, CooldownMs}
AnalysisScores == {69, 70}
RelevanceScores == {69, 70}
NoAgent == -1
Exhausted == -2

VARIABLES
  variant,        \* which BackendService of src/server.js runs
  agents,         \* AgentPool.agents: 0..N-1 -> [requests, limit, resetAt, status]
  currentIndex,   \* AgentPool.currentIndex
  now,            \* Date.now()
  ticks,          \* number of clock advances so far (bounded by MaxTicks)
  catalog,        \* what octokit.search.repos returns: a sequence of repositories
  mcp_servers,    \* table mcp_servers
  matches,        \* table matches
  notifications,  \* table notifications
  tickets,        \* issues created on the hosting platform by issues.create
  run,            \* one record per scanAndAnalyze invocation
  client,         \* the pool on its own: one record per caller of execute
  hist,           \* the pool on its own: the execute calls so far, whether they were
                  \* undisturbed, and the latest streak of undisturbed calls
  gateway         \* the express application: process.env.ADMIN_KEY, the limiter's
                  \* Map rateLimits, the Set blockedIPs, the last response sent

vars == <<variant, agents, currentIndex, now, ticks, catalog, mcp_servers,
          matches, notifications, tickets, run, client, hist, gateway>>

\* ------------------------------------------------------------------- pool

NumAgents == Cardinality(DOMAIN agents)

\* initializeAgents: usage {requests: 0, limit, resetAt: Date.now() + 60000}, status
\* 'active'. The source fixes limit at 30; here it is the parameter `limit`, so that
\* a quota is reached within a few calls.
NewAgent(limit, t) ==
  [requests |-> 0, limit |-> limit, resetAt |-> t + WindowMs, status |-> "active"]

\* verbose getNextAgent, reset pass: `now >= agent.resetAt`. The agent object has
\* no resetAt property (the timestamp is agent.usage.resetAt), so the right-hand
\* side is undefined and the comparison is false for every agent.
WindowElapsedVerbose(agent, t) == FALSE

ResetPassVerbose(ags, t) ==
  [a \in DOMAIN ags |->
     IF WindowElapsedVerbose(ags[a], t)
       THEN [ags[a] EXCEPT !.requests = 0, !.resetAt = t + WindowMs, !.status = "active"]
       ELSE ags[a]]

EligibleOffByOne(agent) == agent.status = "active" /\ agent.requests <= agent.limit

\* verbose: agent.status === 'active' && agent.usage.requests < agent.usage.limit
EligibleVerbose(agent) == agent.status = "active" /\ agent.requests < agent.limit

\* minimal: `if (agent.usage.requests >= agent.usage.limit) continue;` (status is not read)
EligibleMinimal(agent) == ~(agent.requests >= agent.limit)

\* minimal: lazy reset of the agent about to be returned
PickMinimal(agent, t) ==
  IF agent.resetAt <= t
    THEN [agent EXCEPT !.requests = 0, !.resetAt = t + WindowMs]
    ELSE agent

RECURSIVE ScanAgents(_, _, _, _, _)
\* the for loop of getNextAgent: i-th inspection with the cursor at cur
ScanAgents(v, ags, cur, i, t) ==
  LET n == Cardinality(DOMAIN ags)
      nxt == (cur + 1) % n
  IN IF i >= n
       THEN [found |-> FALSE, agent |-> Exhausted, agents |-> ags, index |-> cur]
       ELSE IF v = "verbose"
         THEN IF EligibleVerbose(ags[cur])
                THEN [found |-> TRUE, agent |-> cur, agents |-> ags, index |-> nxt]
                ELSE ScanAgents(v, ags, nxt, i + 1, t)
         ELSE IF EligibleMinimal(ags[cur])
                THEN [found |-> TRUE, agent |-> cur,
                      agents |-> [ags EXCEPT ![cur] = PickMinimal(ags[cur], t)],
                      index |-> nxt]
                ELSE ScanAgents(v, ags, nxt, i + 1, t)

getNextAgentCursorOnAgent(v, ags, cur, t) ==
  LET res == IF v = "verbose"
               THEN ScanAgents(v, ResetPassVerbose(ags, t), cur, 0, t)
               ELSE ScanAgents(v, ags, cur, 0, t)
  IN IF res.found THEN [res EXCEPT !.index = res.agent] ELSE res

getNextAgentSingleAdvance(v, ags, cur, t) ==
  LET res == IF v = "verbose"
               THEN ScanAgents(v, ResetPassVerbose(ags, t), cur, 0, t)
               ELSE ScanAgents(v, ags, cur, 0, t)
  IN [res EXCEPT !.index = (cur + 1) % Cardinality(DOMAIN ags)]

\* AgentPool.getNextAgent: found = FALSE is the throw 'All agents (are) rate limited'
getNextAgent(v, ags, cur, t) ==
  IF v = "verbose"
    THEN ScanAgents(v, ResetPassVerbose(ags, t), cur, 0, t)
    ELSE ScanAgents(v, ags, cur, 0, t)

SweepAgentsCountersOnly(ags) ==
  [a \in DOMAIN ags |-> [ags[a] EXCEPT !.requests = 0]]

\* the setInterval callback: every agent gets requests = 0 and status 'active'
SweepAgents(ags) ==
  [a \in DOMAIN ags |-> [ags[a] EXCEPT !.requests = 0, !.status = "active"]]

\* execute, success path: agent.usage.requests++
CountRequest(ags, a) == [ags EXCEPT ![a].requests = @ + 1]

\* execute, catch with a 'rate limit' message: agent.status = 'rate_limited'
MarkRateLimited(ags, a) == [ags EXCEPT ![a].status = "rate_limited"]


\* ------------------------------------------------------------ the analyzer

\* the object a well-formed completion answers with: the prompt's structure
\* (score and features vary, the other fields are the prompt's example values)
ParsedAnalysis(body) ==
  [score |-> body.score, code_quality |-> 90, security |-> 80, documentation |-> 85,
   mcp_compliance |-> 90, maintenance |-> TRUE, category |-> "data",
   features |-> <<"feature1">>, recommendations |-> <<"rec1">>]

DefaultAnalysisZeroed ==
  [score |-> 0, code_quality |-> 0, security |-> 0, documentation |-> 0,
   mcp_compliance |-> 0, maintenance |-> FALSE, category |-> "utility",
   features |-> <<>>, recommendations |-> <<>>]

\* minimal analyzeServer: the object returned after the try/catch
DefaultAnalysisMinimal ==
  [score |-> DefaultScore, code_quality |-> DefaultScore, security |-> DefaultScore,
   documentation |-> DefaultScore, mcp_compliance |-> DefaultScore,
   maintenance |-> FALSE, category |-> "utility",
   features |-> <<>>, recommendations |-> <<>>]

\* verbose analyzeServer: the object returned from the catch block
DefaultAnalysisVerbose ==
  [score |-> DefaultScore, code_quality |-> DefaultScore, security |-> DefaultScore,
   documentation |-> DefaultScore, mcp_compliance |-> DefaultScore,
   maintenance |-> FALSE, category |-> "utility",
   features |-> <<>>,
   recommendations |-> <<"Unable to analyze - please check repository">>]

DefaultAnalysis(v) ==
  IF v = "verbose" THEN DefaultAnalysisVerbose ELSE DefaultAnalysisMinimal

\* response.match(/\{[\s\S]*\}/): a response text either has no brace-delimited
\* block ("nojson"), a block JSON.parse rejects ("badjson") or one it accepts ("json")
JsonMatch(body) == body.kind # "nojson"
JsonParses(body) == body.kind = "json"

\* analyzeServer once the completion call has answered with text `body`.
\* minimal: a missing block falls through to the default, a parse error is caught;
\* verbose: a missing block throws inside the try, the catch returns the default.
ParseAnalysis(v, body) ==
  IF JsonMatch(body) /\ JsonParses(body)
    THEN [analysis |-> ParsedAnalysis(body), via |-> "json"]
    ELSE [analysis |-> DefaultAnalysis(v), via |-> body.kind]

AnalysisBodies ==
  [kind : {"json"}, score : AnalysisScores]
    \cup {[kind |-> k, score |-> 0] : k \in {"nojson", "badjson"}}

\* calculateRelevance: the parsed object, or {score: 0.0, reason: 'Unable to calculate ...'}
ParseRelevance(body) ==
  IF JsonMatch(body) /\ JsonParses(body) THEN body.score ELSE 0

RelevanceBodies ==
  [kind : {"json"}, score : RelevanceScores]
    \cup {[kind |-> k, score |-> 0] : k \in {"nojson", "badjson"}}

\* -------------------------------------------------------------- the store

\* SELECT id FROM mcp_servers WHERE repo_owner = ? AND repo_name = ?
ServerRows(repo) == {row \in mcp_servers : row.repo = repo}

checkIfExistsNever(repo) == FALSE

\* GitHubScanner.checkIfExists: result.rows.length > 0
checkIfExists(repo) == ServerRows(repo) # {}

UniqueViolatedNever(repo) == FALSE

\* the table constraint UNIQUE(repo_owner, repo_name) evaluated for an INSERT
UniqueViolated(repo) == ServerRows(repo) # {}

\* SELECT id FROM notifications WHERE target_repo_owner = ? AND target_repo_name = ?
\*   AND sent_at > ?
RecentNotifications(repo, cutoff) ==
  {row \in notifications : row.repo = repo /\ row.sent_at > cutoff}

checkCooldownAlwaysClear(repo, cutoff) == TRUE

\* checkNotificationCooldown / checkCooldown: result.rows.length === 0
checkCooldown(repo, cutoff) == RecentNotifications(repo, cutoff) = {}



\* execute(prompt), up to its await: getNextAgent on the pool (ags, cur) at time t;
\* when an agent is found the completion call is issued on it
PoolExecute(ags, cur, t) == getNextAgent(variant, ags, cur, t)

\* execute's catch on a 'rate limit' error of agent a: mark it, then
\* `return this.execute(prompt)`
PoolRetry(ags, cur, a, t) == PoolExecute(MarkRateLimited(ags, a), cur, t)

\* ------------------------------------------------------- the orchestrator

NoAnalysis == [score |-> -1, code_quality |-> -1, security |-> -1, documentation |-> -1,
               mcp_compliance |-> -1, maintenance |-> FALSE, category |-> "none",
               features |-> <<>>, recommendations |-> <<>>]

NoResult == [returned |-> FALSE, success |-> FALSE, processed |-> 0, error |-> "none"]

\* what notifyMaintainer returns: {success: true, ...}, {success: false, reason:
\* 'cooldown'} or, from its catch, {success: false, reason: error.message}
NotSent == [returned |-> FALSE, success |-> FALSE, reason |-> "none"]
Sent == [returned |-> TRUE, success |-> TRUE, reason |-> "none"]
CooldownActive == [returned |-> TRUE, success |-> FALSE, reason |-> "cooldown"]
NotifyError == [returned |-> TRUE, success |-> FALSE, reason |-> "error"]

\* the locals of one scanAndAnalyze invocation and of the calls it is suspended in;
\* `via` is how analyzeServer obtained `analysis`, `judged` the scores
\* calculateRelevance returned for the issues of the server last matched (dropped
\* when the analysis of the next server starts), `notified` what the last
\* notifyMaintainer call returned (dropped likewise)
IdleRun ==
  [pc |-> "idle", scanIdx |-> 0, newServers |-> <<>>, idx |-> 0,
   analysis |-> NoAnalysis, via |-> "none", nIssues |-> 0, issueIdx |-> 0,
   judged |-> <<>>, found |-> <<>>, mIdx |-> 0, agent |-> NoAgent, cutoff |-> 0,
   sentAt |-> 0, notified |-> NotSent, result |-> NoResult]

\* what a continuation of run r may read and write besides the tables
Ctx(r) == [r |-> r, rec |-> run[r], agents |-> agents, index |-> currentIndex]

Commit(c) ==
  /\ run' = [run EXCEPT ![c.r] = c.rec]
  /\ agents' = c.agents
  /\ currentIndex' = c.index

Server(c) == c.rec.newServers[c.rec.idx]

Execute(c) ==
  LET acq == PoolExecute(c.agents, c.index, now)
  IN [found |-> acq.found, agent |-> acq.agent,
      c |-> [c EXCEPT !.agents = acq.agents, !.index = acq.index]]

RetryExecute(c) ==
  LET acq == PoolRetry(c.agents, c.index, c.rec.agent, now)
  IN [found |-> acq.found, agent |-> acq.agent,
      c |-> [c EXCEPT !.agents = acq.agents, !.index = acq.index]]

\* the locals of the loop body are those of the next server
FreshLocals(rec) ==
  [rec EXCEPT !.analysis = NoAnalysis, !.via = "none", !.nIssues = 0, !.issueIdx = 0,
              !.found = <<>>, !.mIdx = 0, !.agent = NoAgent,
              !.cutoff = 0, !.sentAt = 0]

\* the for loop of scanAndAnalyze moves to the next server (its getReadme is
\* issued), or the run returns {success: true, processed: newServers.length}
NextCandidate(c) ==
  LET k == c.rec.idx + 1
      rec == [FreshLocals(c.rec) EXCEPT !.idx = k]
  IN IF k > Len(c.rec.newServers)
       THEN [c EXCEPT !.rec = [rec EXCEPT !.pc = "done",
                      !.result = [returned |-> TRUE, success |-> TRUE,
                                  processed |-> Len(c.rec.newServers), error |-> "none"]]]
       ELSE [c EXCEPT !.rec = [rec EXCEPT !.pc = "enrich"]]

\* the outer catch of scanAndAnalyze: return {success: false, error}
OuterCatch(c, error) ==
  [c EXCEPT !.rec = [FreshLocals(c.rec) EXCEPT !.pc = "done",
       !.result = [returned |-> TRUE, success |-> FALSE, processed |-> 0, error |-> error]]]

\* verbose: the try/catch around one server's processing logs and goes on
CandidateCatchVerbose(c) == NextCandidate(c)

\* minimal: nothing catches inside the loop, the exception reaches the outer catch
CandidateCatchMinimal(c) == OuterCatch(c, "candidate")

ThrowSwallowed(c) == [c EXCEPT !.rec = [c.rec EXCEPT !.pc = "match_search", !.via = "none"]]

\* an exception raised by a step of one server's processing
Throw(c) ==
  IF variant = "verbose" THEN CandidateCatchVerbose(c) ELSE CandidateCatchMinimal(c)

NotifyGateStrict(found, analysis) == Len(found) > 0 /\ analysis.score > NotifyScoreMin

\* if (matches.length > 0 && analysis.score >= 7.0)
NotifyGate(found, analysis) == Len(found) > 0 /\ analysis.score >= NotifyScoreMin

NotifyCatchRethrows(c) == Throw(c)

\* the catch of notifyMaintainer: return {success: false, reason}; scanAndAnalyze
\* does not read the result and the loop goes on
NotifyCatch(c) == NextCandidate([c EXCEPT !.rec = [c.rec EXCEPT !.notified = NotifyError]])

\* the notification condition; when it holds notifyMaintainer starts and issues
\* the cooldown query with cutoff = Date.now() - cooldown
Gate(c) ==
  IF NotifyGate(c.rec.found, c.rec.analysis)
    THEN [c EXCEPT !.rec = [c.rec EXCEPT !.pc = "cooldown", !.cutoff = now - CooldownMs]]
    ELSE NextCandidate(c)

AfterFindMatchesGateFirst(c) == Gate(c)

\* findMatches has returned: the loop that saves the matches, then the condition
AfterFindMatches(c) ==
  IF Len(c.rec.found) > 0
    THEN [c EXCEPT !.rec = [c.rec EXCEPT !.pc = "persist_match", !.mIdx = 1]]
    ELSE Gate(c)

findMatchesCatchRethrows(c) == Throw(c)

\* the catch of findMatches: return [] whatever was materialized so far
findMatchesCatch(c) == AfterFindMatches([c EXCEPT !.rec = [c.rec EXCEPT !.found = <<>>]])

MaterializeStrict(found, issue, score) ==
  IF score > RelevanceMin THEN Append(found, [issue |-> issue, relevance |-> score]) ELSE found

\* if (relevance.score >= 0.7) matches.push({...})
Materialize(found, issue, score) ==
  IF score >= RelevanceMin THEN Append(found, [issue |-> issue, relevance |-> score]) ELSE found

\* calculateRelevance has returned `score` for the issue under inspection
Judged(c, score) ==
  [c EXCEPT !.rec = [c.rec EXCEPT !.found = Materialize(c.rec.found, c.rec.issueIdx, score),
                                  !.judged = Append(@, score),
                                  !.issueIdx = @ + 1, !.agent = NoAgent]]

RECURSIVE JudgeLoop(_)
\* the for loop of findMatches from the issue at issueIdx on: each calculateRelevance
\* calls execute; when the pool is exhausted the catch yields score 0.0 and the loop
\* goes on without suspending on a network call
JudgeLoop(c) ==
  IF c.rec.issueIdx > c.rec.nIssues
    THEN AfterFindMatches(c)
    ELSE LET e == Execute(c)
         IN IF e.found
              THEN [e.c EXCEPT !.rec = [e.c.rec EXCEPT !.pc = "rel_wait", !.agent = e.agent]]
              ELSE JudgeLoop(Judged(e.c, 0))

AnalyzedUnawaited(c, analysis, via) == NextCandidate(c)

\* analyzeServer has returned: the INSERT INTO mcp_servers is issued
Analyzed(c, analysis, via) ==
  [c EXCEPT !.rec = [c.rec EXCEPT !.pc = "persist", !.analysis = analysis, !.via = via,
                                  !.agent = NoAgent]]

\* scanNewServers has returned newServers: the loop over them starts
Discovered(c) == NextCandidate([c EXCEPT !.rec = [c.rec EXCEPT !.idx = 0]])

\* ---------------------------------------------------------------- gateway

\* the limiter's window: 15 * 60 * 1000 (api.js), 900000 (startup.js)
GatewayWindowMs == 900000
GatewaySteps == {1, GatewayWindowMs - 1}
Identifiers == 1..MaxIdentifiers

\* JavaScript's undefined: what req.headers['x-admin-key'] is when the request
\* carries no such header, and what process.env.ADMIN_KEY is when the
\* environment holds no such variable
Undefined == "undefined"
EnvKeys == {Undefined, "k1"}
Headers == {Undefined, "k1", "k2"}

Apps == {"api.js", "startup.js"}
AdminRoutes ==
  [a \in Apps |->
     IF a = "api.js"
       THEN {"/api/admin/logs", "/api/admin/stats", "/api/admin/block-ip"}
       ELSE {"/api/scan"}]
GatewayRoutes == [a \in Apps |-> {"/api/health"} \cup AdminRoutes[a]]

\* the last response: its status, why it was sent, and the value the admin
\* handler read from the x-admin-key header (NotRead when no admin handler ran)
NotRead == "not read"
NoReply == [adminKey |-> NotRead, status |-> 0, reason |-> "none"]

\* the application after start-up: the environment's ADMIN_KEY (startup.js puts
\* 'nexus-studio' in its own requiredVars table, never in process.env), an empty
\* Map and an empty Set; `accepted` keeps, for each identifier, the times at
\* which the limiter let a request through
NewGateway(app, key) ==
  [app |-> app, ADMIN_KEY |-> key,
   rateLimits |-> [ip \in Identifiers |-> <<>>],
   blockedIPs |-> {},
   accepted |-> [ip \in Identifiers |-> <<>>],
   reply |-> NoReply]

\* how many requests the limiter has let through so far
Admitted(g) ==
  Cardinality({<<ip, i>> \in Identifiers \X (1..MaxAccepted) : i <= Len(g.accepted[ip])})

\* the rejected request is stored as well
checkRateLimitRecordsRejected(requests, t, limit, windowMs) ==
  LET validRequests == SelectSeq(requests, LAMBDA time : t - time < windowMs)
  IN [allowed |-> Len(validRequests) < limit, requests |-> Append(validRequests, t)]

\* SecurityLogger.checkRateLimit on the list stored for the identifier: the
\* entries still inside the window are counted; at the limit the call returns
\* false and stores nothing; below it `now` is pushed and the filtered list stored
checkRateLimit(requests, t, limit, windowMs) ==
  LET validRequests == SelectSeq(requests, LAMBDA time : t - time < windowMs)
  IN IF Len(validRequests) >= limit
       THEN [allowed |-> FALSE, requests |-> requests]
       ELSE [allowed |-> TRUE, requests |-> Append(validRequests, t)]

\* SecurityLogger.validateRequest: the block list, then the limiter, then the
\* checks of the body (size, SQL injection, XSS)
validateRequest(g, ip, t, malicious) ==
  IF ip \in g.blockedIPs
    THEN [reason |-> "IP blocked", allowed |-> FALSE, requests |-> g.rateLimits[ip]]
    ELSE LET lim == checkRateLimit(g.rateLimits[ip], t, GatewayLimit, GatewayWindowMs)
         IN [reason |-> IF ~lim.allowed THEN "Rate limit exceeded"
                        ELSE IF malicious THEN "Malicious content detected"
                        ELSE "valid",
             allowed |-> lim.allowed, requests |-> lim.requests]

\* the inline limiter of startup.js
startupRateLimit(g, ip, t) ==
  LET requests == SelectSeq(g.rateLimits[ip], LAMBDA time : t - time < GatewayWindowMs)
  IN IF Len(requests) >= GatewayLimit
       THEN [reason |-> "Rate limit", allowed |-> FALSE, requests |-> g.rateLimits[ip]]
       ELSE [reason |-> "valid", allowed |-> TRUE, requests |-> Append(requests, t)]

\* the middleware in front of every route, and the status it answers with when
\* it stops the request
Middleware(g, ip, t, malicious) ==
  IF g.app = "api.js" THEN validateRequest(g, ip, t, malicious)
                      ELSE startupRateLimit(g, ip, t)

MiddlewareStatus(app) == IF app = "api.js" THEN 403 ELSE 429

\* the guard the admin handlers start with: adminKey !== process.env.ADMIN_KEY
Unauthorized(g, adminKey) == adminKey # g.ADMIN_KEY

\* ------------------------------------------------------------------- Init

\* a caller of execute: the agent its completion call is issued on, the agents
\* this execute call (with its retries) has issued completion calls on, and
\* whether the timer sweep ran while the call was under way
IdleClient == [agent |-> NoAgent, tried |-> {}, swept |-> FALSE]
NoHistory == [log |-> <<>>, clean |-> TRUE, streak |-> <<>>]

\* the state after `new BackendService()` and init(): a pool of n agents built by
\* initializeAgents at time 0 with the cursor at 0, and empty tables
InitBackend ==
  /\ variant \in Variants
  /\ \E n \in 1..MaxAgents, limit \in 1..MaxLimit :
       agents = [a \in 0..(n - 1) |-> NewAgent(limit, 0)]
  /\ currentIndex = 0
  /\ now = 0
  /\ ticks = 0
  /\ \E n \in 0..MaxRepos : catalog = [i \in 1..n |-> i]
  /\ mcp_servers = {}
  /\ matches = {}
  /\ notifications = {}
  /\ tickets = <<>>
  /\ run = [r \in Runs |-> IdleRun]
  /\ client = [k \in Clients |-> IdleClient]
  /\ hist = NoHistory

\* the backend under an application whose limiter and block list are empty
Init == InitBackend /\ gateway = NewGateway("api.js", Undefined)

Tables == <<mcp_servers, matches, notifications, tickets>>
Clock == <<now, ticks>>
Fixed == <<variant, catalog, client, hist, gateway>>

\* ---------------------------------------------------------------- actions

\* a trigger (cron, POST /api/scan, the start-up scan) calls scanAndAnalyze, which
\* calls scanNewServers, which issues the repository search
Start(r) ==
  /\ run[r].pc = "idle"
  /\ IF r = 1 THEN TRUE ELSE run[r - 1].pc # "idle"
  /\ run' = [run EXCEPT ![r] = [IdleRun EXCEPT !.pc = "search"]]
  /\ UNCHANGED <<agents, currentIndex, Tables, Clock, Fixed>>

\* octokit.search.repos answers with the catalog
SearchRepos(r) ==
  /\ run[r].pc = "search"
  /\ LET c == Ctx(r)
     IN IF Len(catalog) = 0
          THEN Commit(Discovered(c))
          ELSE Commit([c EXCEPT !.rec = [c.rec EXCEPT !.pc = "exists", !.scanIdx = 1]])
  /\ UNCHANGED <<Tables, Clock, Fixed>>

\* octokit.search.repos fails: scanNewServers rethrows, the outer catch returns
SearchReposFails(r) ==
  /\ run[r].pc = "search"
  /\ Commit(OuterCatch(Ctx(r), "discovery"))
  /\ UNCHANGED <<Tables, Clock, Fixed>>

\* the checkIfExists query of one search result answers; a new server is pushed
\* with id crypto.randomUUID() (here: the run and the position in newServers)
CheckExists(r) ==
  /\ run[r].pc = "exists"
  /\ LET c == Ctx(r)
         repo == catalog[c.rec.scanIdx]
         pushed == IF ~checkIfExists(repo)
                     THEN Append(c.rec.newServers,
                                 [id |-> <<r, Len(c.rec.newServers) + 1>>, repo |-> repo])
                     ELSE c.rec.newServers
         d == [c EXCEPT !.rec = [c.rec EXCEPT !.newServers = pushed, !.scanIdx = @ + 1]]
     IN IF d.rec.scanIdx > Len(catalog) THEN Commit(Discovered(d)) ELSE Commit(d)
  /\ UNCHANGED <<Tables, Clock, Fixed>>

\* the checkIfExists query fails: scanNewServers rethrows
CheckExistsFails(r) ==
  /\ run[r].pc = "exists"
  /\ Commit(OuterCatch(Ctx(r), "discovery"))
  /\ UNCHANGED <<Tables, Clock, Fixed>>

\* getReadme (and getPackageJson) have answered, with content or with '' / null;
\* analyzeServer builds the prompt and calls execute
Enrich(r) ==
  /\ run[r].pc = "enrich"
  /\ LET c == Ctx(r)
         e == Execute([c EXCEPT !.rec = [c.rec EXCEPT !.judged = <<>>, !.notified = NotSent]])
     IN IF e.found
          THEN Commit([e.c EXCEPT !.rec = [e.c.rec EXCEPT !.pc = "analyze_wait",
                                                          !.agent = e.agent]])
          ELSE Commit(Analyzed(e.c, DefaultAnalysis(variant), "exhausted"))
  /\ UNCHANGED <<Tables, Clock, Fixed>>

\* the completion call of analyzeServer answers with a text
AnalyzeResponse(r) ==
  /\ run[r].pc = "analyze_wait"
  /\ \E body \in AnalysisBodies :
       LET c == Ctx(r)
           p == ParseAnalysis(variant, body)
           d == [c EXCEPT !.agents = CountRequest(c.agents, c.rec.agent)]
       IN Commit(Analyzed(d, p.analysis, p.via))
  /\ UNCHANGED <<Tables, Clock, Fixed>>

\* the completion call of analyzeServer fails with a 'rate limit' error
AnalyzeRateLimited(r) ==
  /\ run[r].pc = "analyze_wait"
  /\ LET e == RetryExecute(Ctx(r))
     IN IF e.found
          THEN Commit([e.c EXCEPT !.rec = [e.c.rec EXCEPT !.agent = e.agent]])
          ELSE Commit(Analyzed(e.c, DefaultAnalysis(variant), "exhausted"))
  /\ UNCHANGED <<Tables, Clock, Fixed>>

\* the completion call of analyzeServer fails with another error
AnalyzeFails(r) ==
  /\ run[r].pc = "analyze_wait"
  /\ Commit(Analyzed(Ctx(r), DefaultAnalysis(variant), "callfail"))
  /\ UNCHANGED <<Tables, Clock, Fixed>>

PersistServerReplaces(r) ==
  /\ run[r].pc = "persist"
  /\ LET c == Ctx(r)
         s == Server(c)
     IN /\ mcp_servers' = (mcp_servers \ ServerRows(s.repo)) \cup
               {[id |-> s.id, repo |-> s.repo, analysis |-> c.rec.analysis]}
        /\ Commit([c EXCEPT !.rec = [c.rec EXCEPT !.pc = "match_search", !.via = "none"]])
  /\ UNCHANGED <<matches, notifications, tickets, Clock, Fixed>>

\* INSERT INTO mcp_servers answers: the row is stored unless UNIQUE(repo_owner,
\* repo_name) rejects it; then findMatches issues the issue search
PersistServer(r) ==
  /\ run[r].pc = "persist"
  /\ LET c == Ctx(r)
         s == Server(c)
     IN IF UniqueViolated(s.repo)
          THEN /\ Commit(Throw(c))
               /\ UNCHANGED mcp_servers
          ELSE /\ mcp_servers' = mcp_servers \cup
                     {[id |-> s.id, repo |-> s.repo, analysis |-> c.rec.analysis]}
               /\ Commit([c EXCEPT !.rec = [c.rec EXCEPT !.pc = "match_search",
                                                         !.via = "none"]])
  /\ UNCHANGED <<matches, notifications, tickets, Clock, Fixed>>

\* INSERT INTO mcp_servers fails (the store is unreachable)
PersistServerFails(r) ==
  /\ run[r].pc = "persist"
  /\ Commit(Throw(Ctx(r)))
  /\ UNCHANGED <<Tables, Clock, Fixed>>

\* search.issuesAndPullRequests answers with n issues: the relevance loop starts
MatchSearch(r) ==
  /\ run[r].pc = "match_search"
  /\ \E n \in 0..MaxIssues :
       LET c == Ctx(r)
       IN Commit(JudgeLoop([c EXCEPT !.rec = [c.rec EXCEPT !.nIssues = n, !.issueIdx = 1]]))
  /\ UNCHANGED <<Tables, Clock, Fixed>>

\* the issue search fails (or building the query throws): findMatches returns []
MatchSearchFails(r) ==
  /\ run[r].pc = "match_search"
  /\ Commit(findMatchesCatch(Ctx(r)))
  /\ UNCHANGED <<Tables, Clock, Fixed>>

\* the completion call of calculateRelevance answers with a text
RelevanceResponse(r) ==
  /\ run[r].pc = "rel_wait"
  /\ \E body \in RelevanceBodies :
       LET c == Ctx(r)
           d == [c EXCEPT !.agents = CountRequest(c.agents, c.rec.agent)]
       IN Commit(JudgeLoop(Judged(d, ParseRelevance(body))))
  /\ UNCHANGED <<Tables, Clock, Fixed>>

\* the completion call of calculateRelevance fails with a 'rate limit' error
RelevanceRateLimited(r) ==
  /\ run[r].pc = "rel_wait"
  /\ LET e == RetryExecute(Ctx(r))
     IN IF e.found
          THEN Commit([e.c EXCEPT !.rec = [e.c.rec EXCEPT !.agent = e.agent]])
          ELSE Commit(JudgeLoop(Judged(e.c, 0)))
  /\ UNCHANGED <<Tables, Clock, Fixed>>

\* the completion call of calculateRelevance fails with another error
RelevanceFails(r) ==
  /\ run[r].pc = "rel_wait"
  /\ Commit(JudgeLoop(Judged(Ctx(r), 0)))
  /\ UNCHANGED <<Tables, Clock, Fixed>>

\* INSERT INTO matches of the match at mIdx answers
PersistMatch(r) ==
  /\ run[r].pc = "persist_match"
  /\ LET c == Ctx(r)
         m == c.rec.found[c.rec.mIdx]
         d == [c EXCEPT !.rec = [c.rec EXCEPT !.mIdx = @ + 1]]
     IN /\ matches' = matches \cup
             {[server_id |-> Server(c).id, issue |-> m.issue, relevance |-> m.relevance]}
        /\ IF d.rec.mIdx > Len(d.rec.found) THEN Commit(Gate(d)) ELSE Commit(d)
  /\ UNCHANGED <<mcp_servers, notifications, tickets, Clock, Fixed>>

\* INSERT INTO matches fails
PersistMatchFails(r) ==
  /\ run[r].pc = "persist_match"
  /\ Commit(Throw(Ctx(r)))
  /\ UNCHANGED <<Tables, Clock, Fixed>>

\* notifyMaintainer: the cooldown query answers; on a hit the call returns
\* {success: false, reason: 'cooldown'}, otherwise issues.create is called
CooldownQuery(r) ==
  /\ run[r].pc = "cooldown"
  /\ LET c == Ctx(r)
     IN IF checkCooldown(Server(c).repo, c.rec.cutoff)
          THEN Commit([c EXCEPT !.rec = [c.rec EXCEPT !.pc = "create_issue"]])
          ELSE Commit(NextCandidate([c EXCEPT !.rec = [c.rec EXCEPT !.notified = CooldownActive]]))
  /\ UNCHANGED <<Tables, Clock, Fixed>>

\* notifyMaintainer: the cooldown query fails; the catch returns {success: false, reason}
CooldownQueryFails(r) ==
  /\ run[r].pc = "cooldown"
  /\ Commit(NotifyCatch(Ctx(r)))
  /\ UNCHANGED <<Tables, Clock, Fixed>>

\* notifyMaintainer: the cooldown query finds nothing but composing the templates
\* throws (a parsed analysis without a features or recommendations list)
TemplateFails(r) ==
  /\ run[r].pc = "cooldown"
  /\ checkCooldown(Server(Ctx(r)).repo, run[r].cutoff)
  /\ Commit(NotifyCatch(Ctx(r)))
  /\ UNCHANGED <<Tables, Clock, Fixed>>

\* notifyMaintainer: issues.create answers; the INSERT INTO notifications is issued
\* with sent_at = new Date()
CreateIssue(r) ==
  /\ run[r].pc = "create_issue"
  /\ LET c == Ctx(r)
     IN /\ tickets' = Append(tickets, [repo |-> Server(c).repo, server_id |-> Server(c).id])
        /\ Commit([c EXCEPT !.rec = [c.rec EXCEPT !.pc = "notif_insert", !.sentAt = now]])
  /\ UNCHANGED <<mcp_servers, matches, notifications, Clock, Fixed>>

CreateIssueFailsThenRecords(r) ==
  /\ run[r].pc = "create_issue"
  /\ Commit([Ctx(r) EXCEPT !.rec = [Ctx(r).rec EXCEPT !.pc = "notif_insert", !.sentAt = now]])
  /\ UNCHANGED <<Tables, Clock, Fixed>>

\* notifyMaintainer: issues.create fails; the catch returns {success: false, reason}
CreateIssueFails(r) ==
  /\ run[r].pc = "create_issue"
  /\ Commit(NotifyCatch(Ctx(r)))
  /\ UNCHANGED <<Tables, Clock, Fixed>>

\* notifyMaintainer: INSERT INTO notifications answers; the call returns {success: true}
InsertNotification(r) ==
  /\ run[r].pc = "notif_insert"
  /\ LET c == Ctx(r)
     IN /\ notifications' = notifications \cup
             {[repo |-> Server(c).repo, server_id |-> Server(c).id,
               sent_at |-> c.rec.sentAt]}
        /\ Commit(NextCandidate([c EXCEPT !.rec = [c.rec EXCEPT !.notified = Sent]]))
  /\ UNCHANGED <<mcp_servers, matches, tickets, Clock, Fixed>>

\* notifyMaintainer: INSERT INTO notifications fails; the catch returns {success: false}
InsertNotificationFails(r) ==
  /\ run[r].pc = "notif_insert"
  /\ Commit(NotifyCatch(Ctx(r)))
  /\ UNCHANGED <<Tables, Clock, Fixed>>

\* ------------------------------------------------- the pool on its own

\* a reset, a failed completion call, a retry or an overlap happened among the
\* logged execute calls
Disturb(h) == [h EXCEPT !.clean = FALSE, !.streak = <<>>]

\* every agent is active and below its limit
AllEligible(ags) ==
  \A a \in DOMAIN ags : ags[a].status = "active" /\ ags[a].requests < ags[a].limit

\* the execute call just made got agent a (or Exhausted: getNextAgent threw);
\* the streak keeps the cursor the call started from and whether every agent was
\* eligible then
Logged(h, a) ==
  [h EXCEPT !.log = Append(@, a),
            !.streak = IF a = Exhausted THEN <<>>
                       ELSE Append(@, [cursor |-> currentIndex, ready |-> AllEligible(agents),
                                       agent |-> a])]

InFlight == {k \in Clients : client[k].agent # NoAgent}

\* a caller invokes pool.execute(prompt): getNextAgent, then the completion call
\* is issued on the agent it returned; when it throws the caller gets the error
ClientExecute(k) ==
  /\ client[k].agent = NoAgent
  /\ Len(hist.log) < MaxCalls
  /\ LET acq == PoolExecute(agents, currentIndex, now)
         h == Logged(hist, acq.agent)
     IN /\ agents' = acq.agents
        /\ currentIndex' = acq.index
        /\ client' = [client EXCEPT ![k] =
             IF acq.found THEN [agent |-> acq.agent, tried |-> {acq.agent}, swept |-> FALSE]
                          ELSE IdleClient]
        /\ hist' = IF InFlight = {} THEN h ELSE Disturb(h)
  /\ UNCHANGED <<run, Tables, Clock, variant, catalog, gateway>>

\* the completion call answers: agent.usage.requests++ and the text is returned
ClientResponse(k) ==
  /\ client[k].agent # NoAgent
  /\ agents' = CountRequest(agents, client[k].agent)
  /\ client' = [client EXCEPT ![k] = IdleClient]
  /\ UNCHANGED <<currentIndex, hist, run, Tables, Clock, variant, catalog, gateway>>

\* the completion call fails with a 'rate limit' error: the agent is marked and
\* execute calls itself
ClientRateLimited(k) ==
  /\ client[k].agent # NoAgent
  /\ LET acq == PoolRetry(agents, currentIndex, client[k].agent, now)
     IN /\ agents' = acq.agents
        /\ currentIndex' = acq.index
        /\ client' = [client EXCEPT ![k] =
             IF acq.found THEN [@ EXCEPT !.agent = acq.agent, !.tried = @ \cup {acq.agent}]
                          ELSE IdleClient]
  /\ hist' = Disturb(hist)
  /\ UNCHANGED <<run, Tables, Clock, variant, catalog, gateway>>

ClientFailsThenRetries(k) == ClientRateLimited(k)

\* the completion call fails with another error: execute rethrows it
ClientFails(k) ==
  /\ client[k].agent # NoAgent
  /\ client' = [client EXCEPT ![k] = IdleClient]
  /\ hist' = Disturb(hist)
  /\ UNCHANGED <<agents, currentIndex, run, Tables, Clock, variant, catalog, gateway>>

\* ------------------------------------- the notification manager on its own

\* a caller invokes notifier.notifyMaintainer(server, analysis, matches) for a
\* server of its own with one match; the record holds the locals of the call,
\* which starts with the cooldown query, cutoff = Date.now() - cooldown
NotifyCall(r) ==
  /\ run[r].pc \in {"idle", "done"}
  /\ Len(tickets) < MaxTickets
  /\ \E repo \in 1..MaxRepos :
       run' = [run EXCEPT ![r] =
                 [IdleRun EXCEPT !.pc = "cooldown",
                                 !.newServers = <<[id |-> <<r, repo>>, repo |-> repo]>>,
                                 !.idx = 1,
                                 !.analysis = ParsedAnalysis([kind |-> "json", score |-> NotifyScoreMin]),
                                 !.found = <<[issue |-> 1, relevance |-> RelevanceMin]>>,
                                 !.cutoff = now - CooldownMs]]
  /\ UNCHANGED <<agents, currentIndex, Tables, Clock, Fixed>>

\* time passes; when a multiple of the sweep interval is crossed the setInterval
\* callback of the pool runs
Advance(d) ==
  /\ now' = now + d
  /\ IF (now + d) \div SweepMs > now \div SweepMs
       THEN /\ agents' = SweepAgents(agents)
            /\ hist' = Disturb(hist)
            /\ client' = [k \in Clients |->
                            IF k \in InFlight THEN [client[k] EXCEPT !.swept = TRUE]
                                              ELSE client[k]]
       ELSE UNCHANGED <<agents, hist, client>>
  /\ ticks' = ticks + 1
  /\ UNCHANGED <<currentIndex, run, Tables, variant, catalog, gateway>>

Tick ==
  /\ ticks < MaxTicks
  /\ \E d \in TickSteps : Advance(d)

\* ------------------------------------------------------ the gateway's steps

\* one HTTP request from address ip, with or without an x-admin-key header and
\* with a clean or a malicious body, runs through the middleware and, when the
\* middleware calls next(), through the handler of its route.  An admin handler
\* answers 403 when its guard fires and otherwise acts: getRecentLogs and
\* getStats read, blockIP adds the address of the body to blockedIPs, and POST
\* /api/scan calls backend.scanAndAnalyze(), whose result is the response.  The
\* limiter lets at most MaxAccepted requests through in one behaviour
HttpRequest(ip, route, header, malicious, target) ==
  /\ route \in GatewayRoutes[gateway.app]
  /\ LET mw == Middleware(gateway, ip, now, malicious)
         g == [gateway EXCEPT !.rateLimits[ip] = mw.requests,
                              !.accepted[ip] = IF mw.allowed THEN Append(@, now) ELSE @]
         handled == mw.reason = "valid" /\ route \in AdminRoutes[gateway.app]
         Reply(status, reason) ==
           [adminKey |-> IF handled THEN header ELSE NotRead, status |-> status,
            reason |-> reason]
     IN /\ Admitted(g) <= MaxAccepted
        /\ IF mw.reason # "valid"
             THEN /\ gateway' = [g EXCEPT !.reply = Reply(MiddlewareStatus(g.app), mw.reason)]
                  /\ UNCHANGED run
           ELSE IF route \notin AdminRoutes[g.app]
             THEN /\ gateway' = [g EXCEPT !.reply = Reply(200, "served")]
                  /\ UNCHANGED run
           ELSE IF Unauthorized(g, header)
             THEN /\ gateway' = [g EXCEPT !.reply = Reply(403, "Unauthorized")]
                  /\ UNCHANGED run
           ELSE IF route = "/api/admin/block-ip"
             THEN /\ gateway' = [g EXCEPT !.blockedIPs = @ \cup {target},
                                          !.reply = Reply(200, "performed")]
                  /\ UNCHANGED run
           ELSE IF route = "/api/scan"
             THEN /\ gateway' = [g EXCEPT !.reply = Reply(200, "performed")]
                  /\ \E r \in Runs :
                       /\ run[r].pc = "idle"
                       /\ IF r = 1 THEN TRUE ELSE run[r - 1].pc # "idle"
                       /\ run' = [run EXCEPT ![r] = [IdleRun EXCEPT !.pc = "search"]]
           ELSE /\ gateway' = [g EXCEPT !.reply = Reply(200, "performed")]
                /\ UNCHANGED run
  /\ UNCHANGED <<agents, currentIndex, Tables, Clock, variant, catalog, client, hist>>

\* time passes at the gateway, in steps that reach the last instant inside the
\* limiter's window and the first one outside it
GatewayTick ==
  /\ ticks < MaxGatewayTicks
  /\ \E d \in GatewaySteps : Advance(d)

\* ---------------------------------------------------------- specifications

\* the pipeline: up to MaxRuns invocations of scanAndAnalyze, sequential or
\* overlapping, within one instant of the clock
Next ==
  \/ \E r \in Runs : Start(r)
  \/ \E r \in Runs : SearchRepos(r)
  \/ \E r \in Runs : SearchReposFails(r)
  \/ \E r \in Runs : CheckExists(r)
  \/ \E r \in Runs : CheckExistsFails(r)
  \/ \E r \in Runs : Enrich(r)
  \/ \E r \in Runs : AnalyzeResponse(r)
  \/ \E r \in Runs : AnalyzeRateLimited(r)
  \/ \E r \in Runs : AnalyzeFails(r)
  \/ \E r \in Runs : PersistServer(r)
  \/ \E r \in Runs : PersistServerFails(r)
  \/ \E r \in Runs : MatchSearch(r)
  \/ \E r \in Runs : MatchSearchFails(r)
  \/ \E r \in Runs : RelevanceResponse(r)
  \/ \E r \in Runs : RelevanceRateLimited(r)
  \/ \E r \in Runs : RelevanceFails(r)
  \/ \E r \in Runs : PersistMatch(r)
  \/ \E r \in Runs : PersistMatchFails(r)
  \/ \E r \in Runs : CooldownQuery(r)
  \/ \E r \in Runs : CooldownQueryFails(r)
  \/ \E r \in Runs : TemplateFails(r)
  \/ \E r \in Runs : CreateIssue(r)
  \/ \E r \in Runs : CreateIssueFails(r)
  \/ \E r \in Runs : InsertNotification(r)
  \/ \E r \in Runs : InsertNotificationFails(r)

Spec == Init /\ [][Next]_vars

\* the steps of run r: its start and the answers to the calls it awaits
RunStep(r) ==
  \/ Start(r)
  \/ SearchRepos(r) \/ SearchReposFails(r)
  \/ CheckExists(r) \/ CheckExistsFails(r)
  \/ Enrich(r)
  \/ AnalyzeResponse(r) \/ AnalyzeRateLimited(r) \/ AnalyzeFails(r)
  \/ PersistServer(r) \/ PersistServerFails(r)
  \/ MatchSearch(r) \/ MatchSearchFails(r)
  \/ RelevanceResponse(r) \/ RelevanceRateLimited(r) \/ RelevanceFails(r)
  \/ PersistMatch(r) \/ PersistMatchFails(r)
  \/ CooldownQuery(r) \/ CooldownQueryFails(r) \/ TemplateFails(r)
  \/ CreateIssue(r) \/ CreateIssueFails(r)
  \/ InsertNotification(r) \/ InsertNotificationFails(r)

\* the pipeline when every call a run awaits is eventually answered, with success
\* or with failure, and the continuation then runs
SpecLive == Init /\ [][Next]_vars /\ \A r \in Runs : WF_vars(RunStep(r))

\* the pipeline over a catalog of at most one repository while the clock advances
InitClock == Init /\ Len(catalog) <= 1

NextClock == Next \/ Tick

SpecClock == InitClock /\ [][NextClock]_vars

\* the pool alone: callers of execute and the clock
InitPool == Init /\ Len(catalog) = 0

NextPool ==
  \/ \E k \in Clients : ClientExecute(k)
  \/ \E k \in Clients : ClientResponse(k)
  \/ \E k \in Clients : ClientRateLimited(k)
  \/ \E k \in Clients : ClientFails(k)
  \/ Tick

SpecPool == InitPool /\ [][NextPool]_vars

\* the notification manager alone: callers of notifyMaintainer and the clock
InitNotify == Init /\ Len(catalog) = 0

NextNotify ==
  \/ \E r \in Runs : NotifyCall(r)
  \/ \E r \in Runs : CooldownQuery(r)
  \/ \E r \in Runs : CooldownQueryFails(r)
  \/ \E r \in Runs : TemplateFails(r)
  \/ \E r \in Runs : CreateIssue(r)
  \/ \E r \in Runs : CreateIssueFails(r)
  \/ \E r \in Runs : InsertNotification(r)
  \/ \E r \in Runs : InsertNotificationFails(r)
  \/ Tick

SpecNotify == InitNotify /\ [][NextNotify]_vars

\* the gateway: requests to either application, with ADMIN_KEY set or not set in
\* the environment, over a backend with one agent whose repository search finds
\* nothing
InitGateway ==
  /\ InitBackend
  /\ DOMAIN agents = {0}
  /\ Len(catalog) = 0
  /\ \E app \in Apps, key \in EnvKeys : gateway = NewGateway(app, key)

NextGateway ==
  \/ \E ip \in Identifiers, route \in GatewayRoutes[gateway.app],
        header \in Headers, malicious \in BOOLEAN :
          \E target \in IF route = "/api/admin/block-ip" THEN Identifiers ELSE {ip} :
            HttpRequest(ip, route, header, malicious, target)
  \/ \E r \in Runs : SearchRepos(r)
  \/ \E r \in Runs : SearchReposFails(r)
  \/ GatewayTick

SpecGateway == InitGateway /\ [][NextGateway]_vars

\* ------------------------------------------------------------- properties

\* the candidate run r is working on
Candidate(r) == run[r].newServers[run[r].idx]

\* every repository of the search result has a row in mcp_servers
AllKnown == \A i \in DOMAIN catalog : ServerRows(catalog[i]) # {}

\* C1: no step inserts a notification record for a target for which the
\* notifications table already holds a record with sent_at inside the cooldown
\* window (sent_at > now - 1 hour), whatever the runs and their interleaving.
C1_NoNotificationInsideCooldown ==
  [][\A row \in notifications' \ notifications :
       \A old \in notifications :
         old.repo = row.repo => ~(old.sent_at > now - 3600000)]_vars

\* a target has been notified and another run holds the same target as a
\* candidate, analysed and about to be inserted
C1_Witness ==
  \E r \in Runs :
    /\ run[r].pc = "persist"
    /\ \E row \in notifications :
         row.repo = Candidate(r).repo /\ row.server_id # Candidate(r).id

\* C2 (as claimed): an exception raised while one candidate is processed does not
\* abort the batch, so no run ends on a candidate's exception with candidates
\* after the failed one left unprocessed.
C2_BatchSurvivesCandidateFailure ==
  \A r \in Runs :
    run[r].pc = "done" =>
      ~(run[r].result.error = "candidate" /\ run[r].idx < Len(run[r].newServers))

\* C3 (as claimed): a run returns {success: false, error} if and only if the
\* discovery call failed; in every other case it returns {success: true,
\* processed: the number of discovered candidates}.
C3_FailureOnlyFromDiscovery ==
  \A r \in Runs :
    run[r].pc = "done" =>
      /\ run[r].result.returned
      /\ ~run[r].result.success <=> run[r].result.error = "discovery"
      /\ run[r].result.success => run[r].result.processed = Len(run[r].newServers)

\* C4: in a pool of 2 agents of quota 1 each with the cursor at the first, as
\* long as no reset, sweep, failure, retry or overlap has occurred, the first
\* execute call uses agent 0, the second agent 1, and the third fails with the
\* exhausted error without a completion call being issued.
C4_TwoAgentsThenExhausted ==
  (/\ NumAgents = 2
   /\ \A a \in DOMAIN agents : agents[a].limit = 1
   /\ hist.clean) =>
    /\ \A i \in DOMAIN hist.log :
         i <= 3 => hist.log[i] = (IF i = 1 THEN 0 ELSE IF i = 2 THEN 1 ELSE Exhausted)
    /\ Len(hist.log) >= 3 => InFlight = {}

\* three undisturbed sequential calls have been made on such a pool
C4_Witness ==
  /\ NumAgents = 2
  /\ \A a \in DOMAIN agents : agents[a].limit = 1
  /\ hist.clean
  /\ Len(hist.log) = 3
  /\ hist.log[3] = Exhausted
  /\ \A a \in DOMAIN agents : agents[a].requests = 1

\* the scores judged in the step from run record a to run record b
NewlyJudged(a, b) == (Len(a.judged) + 1)..Len(b.judged)

\* the row INSERT INTO matches writes for match m of the candidate of run r
MatchRow(r, m) == [server_id |-> Candidate(r).id, issue |-> m.issue, relevance |-> m.relevance]

\* findMatches materializes a judged issue if and only if its score is >= 0.7
MaterializedIffRelevant ==
  \A r \in Runs :
    (run[r].pc \in {"match_search", "rel_wait"} /\ run'[r] # run[r]) =>
      \A j \in NewlyJudged(run[r], run'[r]) :
        run'[r].judged[j] >= 70 <=>
          \E i \in DOMAIN run'[r].found :
            run'[r].found[i] = [issue |-> j, relevance |-> run'[r].judged[j]]

\* C5 (as claimed): an issue is materialized and persisted if and only if its
\* judged score is >= 0.7: each materialized match is in the matches table once
\* its INSERT has been issued, and every row of matches has relevance >= 0.7.
C5_PersistedIffRelevant ==
  [][/\ MaterializedIffRelevant
     /\ \A r \in Runs :
          (run[r].pc = "persist_match" /\ run'[r] # run[r]) =>
            MatchRow(r, run[r].found[run[r].mIdx]) \in matches'
     /\ \A row \in matches' : row.relevance >= 70]_vars

\* C5 (amended): an issue is materialized if and only if its judged score is
\* >= 0.7; the INSERT of a materialized match either stores exactly its row or
\* fails, and a failure ends the candidate with its remaining matches unsaved;
\* every row of matches has relevance >= 0.7 and is a materialized match.
C5_MaterializedIffRelevant ==
  [][/\ MaterializedIffRelevant
     /\ \A r \in Runs :
          (run[r].pc = "persist_match" /\ run'[r] # run[r]) =>
            \/ /\ matches' = matches \cup {MatchRow(r, run[r].found[run[r].mIdx])}
               /\ run[r].found[run[r].mIdx].relevance >= 70
               /\ \/ run'[r].pc = "persist_match" /\ run'[r].mIdx = run[r].mIdx + 1
                  \/ /\ run[r].mIdx = Len(run[r].found)
                     /\ \A i \in DOMAIN run[r].found : MatchRow(r, run[r].found[i]) \in matches'
            \/ /\ matches' = matches
               /\ run'[r].pc \in {"enrich", "done"}
     /\ \A r \in Runs : run[r].pc # "persist_match" /\ run'[r] # run[r] => matches' = matches
     /\ \A row \in matches' : row.relevance >= 70]_vars

\* an issue judged exactly 0.7 has been materialized and saved, and another
\* judged below 0.7 has left no match
C5_Witness ==
  /\ \E r \in Runs : \E row \in matches :
       /\ row.relevance = 70
       /\ run[r].pc \in {"cooldown", "enrich", "done"}
       /\ run[r].judged = <<70>>
  /\ \E r \in Runs :
       /\ run[r].pc \in {"enrich", "done"}
       /\ run[r].judged = <<69>>

\* the step of run r saves the last match of the candidate, after which the
\* notification condition is evaluated
LastMatchSaved(r) ==
  /\ run[r].pc = "persist_match"
  /\ run[r].mIdx = Len(run[r].found)
  /\ run'[r] # run[r]
  /\ matches' # matches

\* C6: a processed candidate gets a notifyMaintainer call if and only if its match
\* list is non-empty and analysis.score >= 7.0: the call starts only in the step
\* that saved the last of at least one match with score >= 7.0, it does start
\* whenever that step finds score >= 7.0, and a candidate without matches goes
\* on to the next candidate without it.
C6_NotifyIffMatchesAndScore ==
  [][\A r \in Runs :
       /\ (run'[r].pc = "cooldown" /\ run[r].pc # "cooldown") =>
            /\ LastMatchSaved(r)
            /\ Len(run[r].found) > 0
            /\ run[r].analysis.score >= 70
       /\ (LastMatchSaved(r) /\ run[r].analysis.score >= 70) => run'[r].pc = "cooldown"
       /\ (run'[r].pc \in {"cooldown", "create_issue", "notif_insert"}) =>
            /\ Len(run'[r].found) > 0
            /\ run'[r].analysis.score >= 70]_vars

\* notifyMaintainer has been called for a candidate with score exactly 7.0 and
\* one match of relevance exactly 0.70, and another candidate with a match and
\* score 6.9 was passed over
C6_Witness ==
  /\ \E r \in Runs :
       /\ run[r].pc = "cooldown"
       /\ run[r].analysis.score = 70
       /\ Len(run[r].found) = 1
       /\ run[r].found[1].relevance = 70
  /\ \E row \in mcp_servers :
       /\ row.analysis.score = 69
       /\ \E m \in matches : m.server_id = row.id
       /\ \A r \in Runs : run[r].pc \in {"cooldown", "done"}

\* C7: when discovery checks a search result that has a row in mcp_servers it does
\* not add it to newServers, and whatever it adds had no row when it was checked.
C7_DiscoveryExcludesKnown ==
  [][\A r \in Runs :
       (run[r].pc = "exists" /\ run'[r] # run[r]) =>
         LET repo == catalog[run[r].scanIdx]
             old == run[r].newServers
             new == run'[r].newServers
         IN /\ ServerRows(repo) # {} => new = old
            /\ new # old => /\ ServerRows(repo) = {}
                            /\ Len(new) = Len(old) + 1
                            /\ new[Len(new)].repo = repo
                            /\ SubSeq(new, 1, Len(old)) = old]_vars

\* discovery has checked the first of two search results, found it in the store
\* and left it out
C7_Witness ==
  \E r \in Runs :
    /\ run[r].pc = "exists"
    /\ run[r].scanIdx = 2
    /\ run[r].newServers = <<>>
    /\ ServerRows(catalog[1]) # {}

\* C8: a run that starts or discovers while every repository of the (unchanged)
\* search result is in the store keeps newServers empty, changes no table and
\* creates no ticket in any of its steps, and ends having processed nothing.
C8_SecondRunWritesNothing ==
  [][\A r \in Runs :
       (/\ AllKnown
        /\ run[r].pc \in {"idle", "search", "exists"}
        /\ run[r].newServers = <<>>
        /\ run'[r] # run[r]) =>
         /\ Tables' = Tables
         /\ run'[r].newServers = <<>>
         /\ run'[r].pc \in {"search", "exists", "done"}
         /\ run'[r].result.processed = 0]_vars

\* a run over a non-empty search result, all of it in the store, has returned
\* success with nothing processed
C8_Witness ==
  \E r \in Runs :
    /\ Len(catalog) > 0
    /\ AllKnown
    /\ run[r].pc = "done"
    /\ run[r].result.success
    /\ run[r].newServers = <<>>

\* analyzeServer returned without a parsed object: the call failed, the response
\* had no brace-delimited block, or the block did not parse
Unparsed(r) == run[r].via \in {"callfail", "nojson", "badjson"}

\* C9 (as claimed): whenever analyzeServer cannot obtain a parseable object it
\* returns the neutral default: score and the four sub-scores 5.0, maintenance
\* false, category "utility", empty feature and recommendation lists.
C9_DefaultHasEmptyLists ==
  \A r \in Runs :
    Unparsed(r) =>
      /\ run[r].pc = "persist"
      /\ run[r].analysis =
           [score |-> 50, code_quality |-> 50, security |-> 50, documentation |-> 50,
            mcp_compliance |-> 50, maintenance |-> FALSE, category |-> "utility",
            features |-> <<>>, recommendations |-> <<>>]

\* C9 (amended): as claimed, except that the recommendation list is empty in the
\* minimal backend only; the verbose backend returns the single recommendation
\* 'Unable to analyze - please check repository'.
C9_DefaultOnUnparsed ==
  \A r \in Runs :
    Unparsed(r) =>
      /\ run[r].pc = "persist"
      /\ run[r].analysis =
           [score |-> 50, code_quality |-> 50, security |-> 50, documentation |-> 50,
            mcp_compliance |-> 50, maintenance |-> FALSE, category |-> "utility",
            features |-> <<>>,
            recommendations |->
              IF variant = "verbose"
                THEN <<"Unable to analyze - please check repository">>
                ELSE <<>>]

\* analyzeServer has returned the default after an answer without an object
C9_Witness ==
  \E r \in Runs : run[r].via = "nojson" /\ run[r].pc = "persist" /\ run[r].analysis.score = 50

\* C10 (as claimed): when execute fails because the pool is exhausted during a
\* candidate's analysis, the candidate is skipped: no mcp_servers row is written
\* for it with a substituted result.
C10_ExhaustionSkipsCandidate ==
  [][\A r \in Runs :
       (run[r].via = "exhausted" /\ run'[r] # run[r]) => mcp_servers' = mcp_servers]_vars

\* C11: notifyMaintainer never raises: a failure of the cooldown query, of the
\* template composition, of the ticket creation or of the record insert ends the
\* call with a result, and the run goes on with the next candidate (or returns
\* success when there is none); it never ends in the catch of scanAndAnalyze.
C11_NotifyFailureIsContained ==
  [][\A r \in Runs :
       (\/ CooldownQueryFails(r) \/ TemplateFails(r)
        \/ CreateIssueFails(r) \/ InsertNotificationFails(r)) =>
         /\ run'[r].idx = run[r].idx + 1
         /\ run'[r].newServers = run[r].newServers
         /\ IF run[r].idx < Len(run[r].newServers)
              THEN run'[r].pc = "enrich"
              ELSE /\ run'[r].pc = "done"
                   /\ run'[r].result = [returned |-> TRUE, success |-> TRUE,
                                        processed |-> Len(run[r].newServers),
                                        error |-> "none"]]_vars

\* the record insert of the first candidate's notification failed (its ticket
\* exists, its record does not) and the run is working on the second candidate
C11_Witness ==
  \E r \in Runs :
    /\ run[r].idx = 2
    /\ run[r].pc = "enrich"
    /\ \E t \in DOMAIN tickets : tickets[t].server_id = run[r].newServers[1].id
    /\ \A row \in notifications : row.server_id # run[r].newServers[1].id

\* C12: when the issue search fails, findMatches returns an empty list: the
\* candidate, whose row is in mcp_servers, counts as processed, no match row is
\* written for it and notifyMaintainer is not called.
C12_SearchFailureYieldsNoMatches ==
  [][\A r \in Runs :
       MatchSearchFails(r) =>
         /\ \E row \in mcp_servers' : row.id = Candidate(r).id
         /\ Tables' = Tables
         /\ run'[r].idx = run[r].idx + 1
         /\ run'[r].pc \in {"enrich", "done"}
         /\ run'[r].pc = "done" =>
              /\ run'[r].result.success
              /\ run'[r].result.processed = Len(run[r].newServers)]_vars

\* a candidate with score 7.0 is in mcp_servers, its run has left it behind and
\* returned success, and it has neither a match row nor a ticket
C12_Witness ==
  \E r \in Runs :
    /\ run[r].pc = "done"
    /\ run[r].result.success
    /\ Len(run[r].newServers) = 1
    /\ \E row \in mcp_servers : row.id = run[r].newServers[1].id /\ row.analysis.score = 70
    /\ \A m \in matches : m.server_id # run[r].newServers[1].id
    /\ \A t \in DOMAIN tickets : tickets[t].server_id # run[r].newServers[1].id

\* C13 (as claimed): a candidate whose analysis is the default one (empty feature
\* list) gets an empty match list from findMatches whatever the issue search and
\* the relevance judgments return, and notifyMaintainer is not called for it.
C13_DefaultAnalysisHasNoMatches ==
  \A r \in Runs :
    (run[r].analysis = DefaultAnalysis(variant) /\ run[r].analysis.features = <<>>) =>
      /\ run[r].found = <<>>
      /\ run[r].pc \notin {"persist_match", "cooldown", "create_issue", "notif_insert"}

\* C14 (as claimed): when a run's INSERT INTO mcp_servers hits the (owner, name)
\* uniqueness constraint because an overlapping run persisted the candidate
\* first, no second row is written, the candidate is skipped, and the run goes
\* on with its remaining candidates and still returns success.
C14_ConflictSkipsCandidate ==
  [][\A r \in Runs :
       (PersistServer(r) /\ UniqueViolated(Candidate(r).repo)) =>
         /\ mcp_servers' = mcp_servers
         /\ Cardinality(ServerRows(Candidate(r).repo)) = 1
         /\ run'[r].idx = run[r].idx + 1
         /\ IF run[r].idx < Len(run[r].newServers)
              THEN run'[r].pc = "enrich"
              ELSE run'[r].pc = "done" /\ run'[r].result.success]_vars

\* C15: in every reachable state each (owner, name) has at most one row in
\* mcp_servers, hence at most one persisted analysis.
C15_OneRowPerRepository ==
  \A row1 \in mcp_servers : \A row2 \in mcp_servers :
    row1.repo = row2.repo => row1 = row2

\* two runs discovered the same repository; one has its row in mcp_servers, the
\* other analysed it too and has left it behind without a row of its own
C15_Witness ==
  \E r \in Runs :
    /\ run[r].idx = 2
    /\ run[r].result.error # "candidate"
    /\ \E row \in mcp_servers :
         /\ row.repo = run[r].newServers[1].repo
         /\ row.id # run[r].newServers[1].id
         /\ row.id[1] # r

\* C16: in every reachable state each row of matches has the server_id of a row
\* present in mcp_servers; no match is saved for a candidate whose own insert
\* failed or has not happened yet.
C16_MatchReferencesServer ==
  \A m \in matches : \E row \in mcp_servers : row.id = m.server_id

\* a match has been saved for a persisted candidate, while a run has left behind
\* a candidate whose insert failed
C16_Witness ==
  /\ matches # {}
  /\ \E r \in Runs :
       /\ run[r].idx = 2
       /\ \A row \in mcp_servers : row.id # run[r].newServers[1].id

\* the step of caller k in which getNextAgent returns an agent to execute
Acquires(k) ==
  /\ ClientExecute(k) \/ ClientRateLimited(k)
  /\ client'[k].agent # NoAgent

\* C17 (as claimed): getNextAgent only returns an agent that, when returned, has
\* status active and a request count strictly below its limit; an agent marked
\* rate_limited is not returned until a reset has made it active again.
C17_ReturnedAgentIsEligible ==
  [][\A k \in Clients :
       Acquires(k) =>
         /\ agents'[client'[k].agent].status = "active"
         /\ agents'[client'[k].agent].requests < agents'[client'[k].agent].limit]_vars

\* C18 (as claimed): every started run eventually returns a result, provided
\* every call it awaits is eventually answered; no run stays forever inside a
\* candidate's processing or inside the retry of the pool.
C18_EveryRunFinishes ==
  \A r \in Runs : (run[r].pc # "idle") ~> (run[r].pc = "done" /\ run[r].result.returned)

\* C19 (as claimed): while no sweep or window reset occurs, the retries of one
\* execute call issue each completion call on an agent not tried before in that
\* call, so that after at most N rate-limit answers the call ends with the
\* exhausted error.
C19_RetriesUseDistinctAgents ==
  [][\A k \in Clients :
       (ClientRateLimited(k) /\ ~client[k].swept) =>
         /\ client'[k].agent # NoAgent => client'[k].agent \notin client[k].tried
         /\ client[k].tried = DOMAIN agents => client'[k].agent = NoAgent]_vars

\* eligibility as the pool's contract states it: active and below the quota
EligibleAsSpecified(agent) == agent.status = "active" /\ agent.requests < agent.limit

\* the first agent eligible in round-robin order from the cursor, or Exhausted
FirstEligibleFrom(ags, cur) ==
  LET n == Cardinality(DOMAIN ags)
      hits == {i \in 0..(n - 1) : EligibleAsSpecified(ags[(cur + i) % n])}
  IN IF hits = {} THEN Exhausted
     ELSE (cur + (CHOOSE i \in hits : \A j \in hits : i <= j)) % n

\* the pool as getNextAgent finds it in the step of caller k
PoolAtCall(k) ==
  IF client[k].agent = NoAgent THEN agents ELSE MarkRateLimited(agents, client[k].agent)

\* C20 (as claimed): getNextAgent returns the first agent, in round-robin order
\* from the cursor, that is eligible at call time, leaving the cursor behind it,
\* and fails with the exhausted error if and only if none of the N is eligible.
C20_FirstEligibleInRotation ==
  [][\A k \in Clients :
       (ClientExecute(k) \/ ClientRateLimited(k)) =>
         LET want == FirstEligibleFrom(PoolAtCall(k), currentIndex)
         IN IF want = Exhausted
              THEN client'[k].agent = NoAgent
              ELSE /\ client'[k].agent = want
                   /\ currentIndex' = (want + 1) % NumAgents]_vars

\* C21 (as claimed): execute adds exactly one to the usage counter of the agent
\* it used on any response of the completion service: a success, a rate-limit
\* error or another error.
C21_EveryResponseCounts ==
  [][\A k \in Clients :
       (ClientResponse(k) \/ ClientFails(k) \/ ClientRateLimited(k)) =>
         agents'[client[k].agent].requests = agents[client[k].agent].requests + 1]_vars

\* C22 (as claimed): after a rate-limit error execute marks the agent it used as
\* rate_limited and the retry never gets that same agent from getNextAgent; with
\* a pool of one agent the retry fails as exhausted.
C22_RetryAvoidsFailedAgent ==
  [][\A k \in Clients :
       ClientRateLimited(k) =>
         /\ client'[k].agent # client[k].agent
         /\ NumAgents = 1 => client'[k].agent = NoAgent]_vars

\* the window of the agent has elapsed at time t
WindowElapsedAsSpecified(agent, t) == t >= agent.resetAt

\* C23 (as claimed): a getNextAgent call first gives every agent whose window has
\* elapsed a zero counter and status active, whether or not it is under the
\* cursor, so that when there is such an agent the call does not fail as exhausted.
C23_LazyResetOfEveryElapsedAgent ==
  [][\A k \in Clients :
       (ClientExecute(k) \/ ClientRateLimited(k)) =>
         LET elapsed == {a \in DOMAIN agents : WindowElapsedAsSpecified(PoolAtCall(k)[a], now)}
         IN /\ \A a \in elapsed : agents'[a].requests = 0 /\ agents'[a].status = "active"
            /\ elapsed # {} => client'[k].agent # NoAgent]_vars

\* the clock crosses a multiple of the sweep interval in this step
SweepFires == now' \div SweepMs > now \div SweepMs

\* C24: each firing of the sweep timer leaves every agent with request count zero
\* and status active, whatever it was before and whatever calls are under way, and
\* changes neither the cursor nor the set of agents (nor their limits).
C24_SweepRestoresEveryAgent ==
  [][SweepFires =>
       /\ DOMAIN agents' = DOMAIN agents
       /\ \A a \in DOMAIN agents :
            /\ agents'[a].requests = 0
            /\ agents'[a].status = "active"
            /\ agents'[a].limit = agents[a].limit
       /\ currentIndex' = currentIndex]_vars

\* the sweep has run while a call was in its retry: the caller has been through
\* both agents, the first of which it left rate_limited, and both are active now
C24_Witness ==
  \E k \in Clients :
    /\ client[k].swept
    /\ client[k].tried = {0, 1}
    /\ client[k].agent = 1
    /\ variant = "verbose"
    /\ \A a \in DOMAIN agents : agents[a].status = "active" /\ agents[a].requests = 0

\* the step of caller k runs getNextAgent (from execute or from its retry)
CallsGetNextAgent(k) == ClientExecute(k) \/ ClientRateLimited(k)

\* C25 (as claimed): in a pool of more than one agent the cursor after a
\* getNextAgent call, successful or failing as exhausted, differs from the cursor
\* before it.
C25_CursorMovesOnEveryCall ==
  [][\A k \in Clients :
       (CallsGetNextAgent(k) /\ NumAgents > 1) => currentIndex' # currentIndex]_vars

\* C25 (amended): the cursor advances once per agent inspected, not once per
\* call: a call that returns an agent leaves the cursor just behind that agent,
\* and a call that fails as exhausted has inspected all N agents and leaves the
\* cursor where it was.
C25_CursorMovesPerInspection ==
  [][\A k \in Clients :
       CallsGetNextAgent(k) =>
         IF client'[k].agent = NoAgent
           THEN currentIndex' = currentIndex
           ELSE currentIndex' = (client'[k].agent + 1) % NumAgents]_vars

\* in a pool of two agents a call has just failed as exhausted, and the cursor is
\* at the second agent
C25_Witness ==
  /\ NumAgents = 2
  /\ Len(hist.log) > 0
  /\ hist.log[Len(hist.log)] = Exhausted
  /\ currentIndex = 1

\* the tickets created for the server with this id
TicketsFor(id) == {t \in DOMAIN tickets : tickets[t].server_id = id}

\* C26: notifyMaintainer creates the ticket before it appends the record and
\* appends only after the creation succeeded: a record is only appended by a
\* call whose ticket already exists, every record in the store has a ticket,
\* and a failed ticket creation changes neither table and ends the call.
C26_RecordOnlyAfterTicket ==
  [][/\ \A row \in notifications' \ notifications : TicketsFor(row.server_id) # {}
     /\ \A row \in notifications : TicketsFor(row.server_id) # {}
     /\ \A r \in Runs :
          CreateIssueFails(r) =>
            /\ notifications' = notifications
            /\ tickets' = tickets
            /\ run'[r].pc \in {"enrich", "done"}]_vars

\* one candidate has its ticket and its record, and a run has returned whose
\* candidate met the notification condition and has neither ticket nor record
C26_Witness ==
  /\ \E row \in notifications : TicketsFor(row.server_id) # {}
  /\ \E r \in Runs :
       /\ run[r].pc = "done"
       /\ \E i \in DOMAIN run[r].newServers :
            LET id == run[r].newServers[i].id
            IN /\ \E row \in mcp_servers : row.id = id /\ row.analysis.score >= 70
               /\ \E m \in matches : m.server_id = id
               /\ TicketsFor(id) = {}
               /\ \A row \in notifications : row.server_id # id

\* C27: when the cooldown query of notifyMaintainer finds a record of the target
\* with sent_at newer than the cutoff (now minus the cooldown), the call returns
\* {success: false, reason: 'cooldown'} without creating a ticket or a record.
C27_CooldownHitBlocksSend ==
  [][\A r \in Runs :
       (/\ CooldownQuery(r)
        /\ \E row \in notifications :
             row.repo = Candidate(r).repo /\ row.sent_at > run[r].cutoff) =>
         /\ run'[r].notified = CooldownActive
         /\ run'[r].pc \notin {"create_issue", "notif_insert"}
         /\ tickets' = tickets
         /\ notifications' = notifications]_vars

\* a call for a target notified within the last hour has returned 'cooldown',
\* and the target still has its single ticket and its single record
C27_Witness ==
  \E r \in Runs :
    /\ run[r].notified = CooldownActive
    /\ Cardinality({row \in notifications : row.repo = run[r].newServers[1].repo}) = 1
    /\ Cardinality({t \in DOMAIN tickets : tickets[t].repo = run[r].newServers[1].repo}) = 1

\* the steps of one candidate's processing: the calls the loop body awaits
CandidateSteps ==
  {"enrich", "analyze_wait", "persist", "match_search", "rel_wait", "persist_match",
   "cooldown", "create_issue", "notif_insert"}

\* the steps at which the processing of a candidate can end: its insert raised,
\* findMatches returned nothing, the last match was saved (or its insert raised),
\* or notifyMaintainer returned
ClosingSteps ==
  {"persist", "match_search", "rel_wait", "persist_match",
   "cooldown", "create_issue", "notif_insert"}

\* C28: a run works on one candidate at a time, in the order of discovery: while
\* a step of candidate k is awaited the run stays on candidate k, and the first
\* step of candidate k + 1 starts only in the step in which the last step of
\* candidate k completed or failed (the first candidate: when discovery returned).
C28_OneCandidateAtATime ==
  [][\A r \in Runs :
       run'[r] # run[r] =>
         /\ (run[r].pc \in CandidateSteps /\ run'[r].pc \in CandidateSteps \ {"enrich"}) =>
              /\ run'[r].idx = run[r].idx
              /\ run'[r].newServers = run[r].newServers
         /\ run'[r].pc = "enrich" =>
              /\ run'[r].idx = run[r].idx + 1
              /\ run'[r].idx \in DOMAIN run'[r].newServers
              /\ (run'[r].newServers = run[r].newServers \/ run[r].pc = "exists")
              /\ IF run'[r].idx = 1
                   THEN run[r].pc \in {"search", "exists"}
                   ELSE run[r].pc \in ClosingSteps
         /\ run[r].pc \in CandidateSteps => run'[r].pc \in CandidateSteps \cup {"done"}]_vars

\* a run awaits the analysis of its second candidate; the first one has been
\* persisted and has a saved match
C28_Witness ==
  \E r \in Runs :
    /\ run[r].idx = 2
    /\ run[r].pc = "analyze_wait"
    /\ \E row \in mcp_servers : row.id = run[r].newServers[1].id
    /\ \E m \in matches : m.server_id = run[r].newServers[1].id

\* the awaited steps that may directly follow step pc of the same candidate
StepsAfter(pc) ==
  CASE pc = "enrich" -> {"analyze_wait", "persist"}
    [] pc = "analyze_wait" -> {"analyze_wait", "persist"}
    [] pc = "persist" -> {"match_search"}
    [] pc = "match_search" -> {"rel_wait", "persist_match"}
    [] pc = "rel_wait" -> {"rel_wait", "persist_match"}
    [] pc = "persist_match" -> {"persist_match", "cooldown"}
    [] pc = "cooldown" -> {"create_issue"}
    [] pc = "create_issue" -> {"notif_insert"}
    [] OTHER -> {}

\* an INSERT of the candidate of run r raises in this step
InsertRaises(r) ==
  \/ PersistServerFails(r)
  \/ PersistMatchFails(r)
  \/ PersistServer(r) /\ UniqueViolated(Candidate(r).repo)

\* C29: the steps of a candidate follow the order enrich, analyze, persist,
\* match, persist matches, notify: matching starts only once the candidate's row
\* is in mcp_servers, notifyMaintainer is only under way once every match of the
\* candidate is in matches, and when an insert raises the candidate is left
\* without any further step or write.
C29_StepsInOrder ==
  [][\A r \in Runs :
       (run'[r] # run[r] /\ run[r].pc \in CandidateSteps) =>
         /\ (run'[r].idx = run[r].idx /\ run'[r].pc \in CandidateSteps) =>
              run'[r].pc \in StepsAfter(run[r].pc)
         /\ run'[r].pc \in {"match_search", "rel_wait", "persist_match"} =>
              \E row \in mcp_servers' : row.id = run'[r].newServers[run'[r].idx].id
         /\ run'[r].pc \in {"cooldown", "create_issue", "notif_insert"} =>
              \A i \in DOMAIN run'[r].found :
                [server_id |-> run'[r].newServers[run'[r].idx].id,
                 issue |-> run'[r].found[i].issue,
                 relevance |-> run'[r].found[i].relevance] \in matches'
         /\ InsertRaises(r) =>
              /\ Tables' = Tables
              /\ run'[r].pc = "done" \/ run'[r].idx = run[r].idx + 1]_vars

\* a candidate has gone through every step: its row and its match are saved and
\* the ticket creation of its notification is awaited
C29_Witness ==
  \E r \in Runs :
    /\ run[r].pc = "create_issue"
    /\ Len(run[r].found) = 1
    /\ MatchRow(r, run[r].found[1]) \in matches
    /\ \E row \in mcp_servers : row.id = Candidate(r).id

\* C30 (as claimed): the failure of a candidate's processing changes neither the
\* success flag nor the count of the run's result: a run whose discovery
\* returned ends with {success: true, processed: the number of candidates
\* discovered}, however many of them failed.
C30_ProcessedCountsDiscovered ==
  [][\A r \in Runs :
       (run[r].pc \in CandidateSteps /\ run'[r].pc = "done") =>
         run'[r].result = [returned |-> TRUE, success |-> TRUE,
                           processed |-> Len(run[r].newServers), error |-> "none"]]_vars

\* C31: the store is only appended to: every row of mcp_servers, matches and
\* notifications present before a step is present, unchanged, after it, and a
\* step adds at most one row to one of the tables.
C31_StoreOnlyGrows ==
  [][/\ mcp_servers \subseteq mcp_servers'
     /\ matches \subseteq matches'
     /\ notifications \subseteq notifications'
     /\ Cardinality(mcp_servers' \ mcp_servers) + Cardinality(matches' \ matches)
          + Cardinality(notifications' \ notifications) <= 1]_vars

\* the three tables hold rows of a candidate its run has left behind, while an
\* overlapping run is about to insert a row for the same repository
C31_Witness ==
  \E r \in Runs : \E q \in Runs :
    /\ run[r].pc = "done"
    /\ Len(run[r].newServers) > 0
    /\ run[q].pc = "persist"
    /\ \E row \in mcp_servers :
         /\ row.id = run[r].newServers[1].id
         /\ row.repo = Candidate(q).repo
         /\ \E m \in matches : m.server_id = row.id
         /\ \E n \in notifications : n.server_id = row.id

\* C32 (as claimed): in every reachable state, overlapping execute calls
\* included, the request count of each agent is at most its limit.
C32_CounterWithinQuota ==
  \A a \in DOMAIN agents : agents[a].requests <= agents[a].limit

\* notifyMaintainer is under way for the candidate of run r
Notifying(r) == run[r].pc \in {"cooldown", "create_issue", "notif_insert"}

\* C33: whatever the runs and their overlap, at most one ticket is ever created
\* for a repository: notifyMaintainer is only under way in the run whose own row
\* for the candidate is in mcp_servers, and a ticket is only created for a
\* repository that has none.
C33_OneTicketPerTarget ==
  [][/\ \A t1 \in DOMAIN tickets' : \A t2 \in DOMAIN tickets' :
          tickets'[t1].repo = tickets'[t2].repo => t1 = t2
     /\ \A r \in Runs :
          Notifying(r) => ServerRows(Candidate(r).repo) = {[id |-> Candidate(r).id,
                                                            repo |-> Candidate(r).repo,
                                                            analysis |-> run[r].analysis]}
     /\ \A r \in Runs :
          CreateIssue(r) => \A t \in DOMAIN tickets : tickets[t].repo # Candidate(r).repo]_vars

\* a repository has its ticket, created by the run that persisted it, and an
\* overlapping run that had discovered it too has ended without creating one
C33_Witness ==
  /\ Len(catalog) = 1
  /\ Len(tickets) = 1
  /\ \E r \in Runs : \E q \in Runs :
       /\ r # q
       /\ run[r].pc = "done"
       /\ Len(run[r].newServers) = 1
       /\ run[r].newServers[1].id # tickets[1].server_id
       /\ run[q].pc = "done"
       /\ Len(run[q].newServers) = 1
       /\ run[q].newServers[1].id = tickets[1].server_id

\* the row the candidate of run record rec gets from that run's own insert
OwnRow(rec) ==
  [id |-> rec.newServers[rec.idx].id, repo |-> rec.newServers[rec.idx].repo,
   analysis |-> rec.analysis]

\* C34: a run analyses, matches and notifies only candidates that had no row when
\* its discovery checked them: newServers changes only at discovery's check, a
\* repository with a row is never added (so a run that discovers after the row
\* was persisted never works on it, whatever became of its matching or
\* notification), and matching or notifying is only under way in the run whose
\* own row is the repository's row.
C34_OnlyCandidatesAbsentAtDiscovery ==
  [][\A r \in Runs :
       run'[r] # run[r] =>
         /\ run[r].pc \notin {"exists", "done", "idle"} => run'[r].newServers = run[r].newServers
         /\ (run[r].pc = "exists" /\ ServerRows(catalog[run[r].scanIdx]) # {}) =>
              run'[r].newServers = run[r].newServers
         /\ run'[r].pc \in CandidateSteps => run'[r].idx \in DOMAIN run'[r].newServers
         /\ run'[r].pc \in ClosingSteps \ {"persist"} =>
              {row \in mcp_servers' : row.repo = OwnRow(run'[r]).repo} = {OwnRow(run'[r])}]_vars

\* a candidate was persisted, its issue search failed and left it without match
\* or ticket; a run that discovered afterwards has returned without working on it
C34_Witness ==
  \E r \in Runs : \E q \in Runs :
    /\ Len(catalog) = 1
    /\ run[r].pc = "done"
    /\ Len(run[r].newServers) = 1
    /\ \E row \in mcp_servers : row.id = run[r].newServers[1].id /\ row.analysis.score >= 70
    /\ matches = {}
    /\ tickets = <<>>
    /\ run[q].pc = "done"
    /\ run[q].scanIdx = 2
    /\ run[q].newServers = <<>>
    /\ run[q].result.success

\* C35: when the completion call fails with an error that is not a rate-limit
\* one, execute ends with that error: no agent's status or request count
\* changes, getNextAgent is not called again (the cursor stays where the call's
\* own getNextAgent left it) and no completion call is issued for the caller.
C35_OtherErrorIsRethrown ==
  [][\A k \in Clients :
       ClientFails(k) =>
         /\ agents' = agents
         /\ currentIndex' = currentIndex
         /\ client'[k].agent = NoAgent
         /\ \A j \in Clients \ {k} : client'[j] = client[j]]_vars

\* the only execute call made so far, on the first of two agents, has ended
\* with such an error: both agents are as created and the cursor has moved on
C35_Witness ==
  /\ NumAgents = 2
  /\ Len(hist.log) = 1
  /\ hist.log[1] = 0
  /\ ~hist.clean
  /\ ticks = 0
  /\ InFlight = {}
  /\ currentIndex = 1
  /\ \A a \in DOMAIN agents : agents[a].status = "active" /\ agents[a].requests = 0

AdmittedFrom(g, ip, i) ==
  {j \in DOMAIN g.accepted[ip] :
     j >= i /\ g.accepted[ip][j] - g.accepted[ip][i] < GatewayWindowMs}

\* the requests of identifier ip that the limiter let through less than a window ago
RecentlyAdmitted(ip) ==
  {i \in DOMAIN gateway.accepted[ip] : now - gateway.accepted[ip][i] < GatewayWindowMs}

LimiterRejected(g) == g.reply.reason \in {"Rate limit exceeded", "Rate limit"}

\* C37: for each client identifier the gateway's limiter lets through at most
\* `limit` requests within any window of windowMs; a request it rejects is not
\* recorded: a step that lets no request of an identifier through leaves the
\* list stored for it as it was, and the limiter rejects a request only while
\* some identifier has `limit` requests let through less than a window back.
C37_SlidingWindowLimit ==
  [][/\ \A ip \in Identifiers : \A i \in DOMAIN gateway'.accepted[ip] :
          Cardinality(AdmittedFrom(gateway', ip, i)) <= GatewayLimit
     /\ \A ip \in Identifiers :
          gateway'.accepted[ip] = gateway.accepted[ip]
            => gateway'.rateLimits[ip] = gateway.rateLimits[ip]
     /\ gateway' # gateway /\ LimiterRejected(gateway')
          => \E ip \in Identifiers \ gateway.blockedIPs :
               Cardinality(RecentlyAdmitted(ip)) >= GatewayLimit]_vars

\* an identifier was let through twice within a millisecond, then again exactly a
\* window after its first request, and its next request, made at that same
\* instant, has just been rejected and left no trace in the stored list
C37_Witness ==
  /\ LimiterRejected(gateway)
  /\ \E ip \in Identifiers :
       LET acc == gateway.accepted[ip]
       IN /\ Len(acc) = GatewayLimit + 1
          /\ acc[GatewayLimit] > acc[1]
          /\ acc[GatewayLimit + 1] = acc[1] + GatewayWindowMs
          /\ now = acc[GatewayLimit + 1]
          /\ gateway.rateLimits[ip] = SubSeq(acc, 2, GatewayLimit + 1)

\* C38: an admin-protected endpoint acts only for a request whose x-admin-key
\* header equals a configured ADMIN_KEY, and a request without that header is
\* answered 403 whatever the environment holds.
C38_AdminKeyRequired ==
  /\ gateway.reply.reason = "performed"
       => /\ gateway.reply.adminKey # Undefined
          /\ gateway.ADMIN_KEY # Undefined
          /\ gateway.reply.adminKey = gateway.ADMIN_KEY
  /\ gateway.reply.adminKey = Undefined => gateway.reply.status = 403

====
